---- MODULE Spec2Model ----
(***************************************************************************)
(* Model of backend/app.py: a Flask-SocketIO bridge that relays chat       *)
(* messages to a CrewAI agent on a background thread per message and       *)
(* streams Token / Error / Done events back to the originating session.    *)
(*                                                                         *)
(* Socket.IO handlers (connect, disconnect, ping, message) and the health  *)
(* endpoint are one action each.  The background thread run_process is     *)
(* split at every point where other threads can interleave: thread start,  *)
(* each on_new_token callback, the end of crew.kickoff() (return or        *)
(* raise), and each socketio.emit of the success / except paths.           *)
(*                                                                         *)
(* Text that the code transforms (role.capitalize(), history formatting)   *)
(* is a sequence of one-character strings; text the code only passes on    *)
(* or concatenates is a TLA+ string.                                       *)
(***************************************************************************)
EXTENDS Naturals, Integers, Sequences, FiniteSets, TLC

(* ------------------------------ bounds --------------------------------- *)
NumSids        == 2   \* session ids the transport hands out
MaxRequests    == 2   \* inbound 'message' events over the whole run
MaxTokens      == 2   \* on_new_token callbacks per crew.kickoff()
MaxInbound     == 4   \* inbound Socket.IO events (connect, disconnect, ping,
                      \* message) over the whole run
MaxTurns       == 3   \* turns of a history passed to a direct call of
                      \* _format_conversation_history

Sids == 1..NumSids

(* --------------------------- fixed literals ---------------------------- *)
GREETING       == "Connected to server successfully. Ready for messages!"
STARTING       == "Starting to process your request..."
INVALID_JSON   == "Invalid message format. Expected JSON."
LLM_NOT_INIT   == "LLM is not initialized properly"
NO_PREVIOUS    == <<"N","o"," ","p","r","e","v","i","o","u","s"," ",
                    "c","o","n","v","e","r","s","a","t","i","o","n",".">>

VARIABLES
    llm,                 \* crew_handler.llm: "LLM" or "None" (set in __init__)
    active_connections,  \* the registry: sid -> [connected_at, ip]
    transport,           \* per sid, the Socket.IO connection: new/open/closed
    requests,            \* one record per inbound message, in arrival order,
                         \* with the 'message' events emitted for it so far
    acks,                \* per sid, the 'message' events emitted by its
                         \* connect handler
    pongs,               \* per room (sid), number of 'pong' events emitted to it
    connects,            \* per sid, number of 'connect' events handled
    disconnects,         \* per sid, number of 'disconnect' events handled
    pings,               \* per sid, number of 'ping' events handled
    fmt_in,              \* argument of a direct call of
                         \* _format_conversation_history
    fmt_out              \* what that call returned or raised

vars == <<llm, active_connections, transport, requests, acks, pongs,
          connects, disconnects, pings, fmt_in, fmt_out>>

(* ------------------------------ events --------------------------------- *)
\* An emitted 'message' event: the room (session id) it is addressed to and
\* its data, {'token': text}, {'error': text} or {'done': True}.
Token(room, text) == [room |-> room, kind |-> "token", text |-> text]
Error(room, text) == [room |-> room, kind |-> "error", text |-> text]
Done(room)        == [room |-> room, kind |-> "done",  text |-> ""]

(* ------------------------ JSON values and text ------------------------- *)
\* A decoded JSON value carries its Python type: dict (a record), list (a
\* sequence), str (a sequence of characters) or None.
DictV(rec)  == [t |-> "dict", v |-> rec]
ListV(seq)  == [t |-> "list", v |-> seq]
StrV(chars) == [t |-> "str",  v |-> chars]
NoneV       == [t |-> "NoneType", v |-> <<>>]

LowerChars == <<"a","b","c","d","e","f","g","h","i","j","k","l","m",
                "n","o","p","q","r","s","t","u","v","w","x","y","z">>
UpperChars == <<"A","B","C","D","E","F","G","H","I","J","K","L","M",
                "N","O","P","Q","R","S","T","U","V","W","X","Y","Z">>

\* str.upper() / str.lower() on one character
Upper(c) == IF \E i \in 1..26 : LowerChars[i] = c
            THEN UpperChars[CHOOSE i \in 1..26 : LowerChars[i] = c] ELSE c
Lower(c) == IF \E i \in 1..26 : UpperChars[i] = c
            THEN LowerChars[CHOOSE i \in 1..26 : UpperChars[i] = c] ELSE c

\* str.capitalize(): first character upper-cased, the rest lower-cased
Capitalize(chars) ==
    [i \in 1..Len(chars) |-> IF i = 1 THEN Upper(chars[i]) ELSE Lower(chars[i])]

\* dict.get(key, default)
Get(d, key, default) == IF key \in DOMAIN d.v THEN d.v[key] ELSE default

\* Python truthiness of a decoded value (the test `not conversation_history`)
Truthy(val) == CASE val.t = "NoneType" -> FALSE
                 [] val.t = "dict"     -> DOMAIN val.v # {}
                 [] OTHER              -> Len(val.v) > 0

\* str(AttributeError) raised by <value>.get / <value>.capitalize
NoAttribute(val, attr) ==
    "'" \o val.t \o "' object has no attribute '" \o attr \o "'"

Returned(x) == [ok |-> TRUE,  value |-> x, err |-> ""]
Raised(msg) == [ok |-> FALSE, value |-> <<>>, err |-> msg]

\* mutant: the role is rendered as given, without .capitalize()
FormatTurn_RawRole(msg) ==
    IF msg.t # "dict" THEN Raised(NoAttribute(msg, "get"))
    ELSE LET role    == Get(msg, "role", StrV(<<"u","n","k","n","o","w","n">>))
             content == Get(msg, "content", StrV(<<>>))
         IN  IF role.t # "str" THEN Raised(NoAttribute(role, "capitalize"))
             ELSE Returned(role.v \o <<":", " ">> \o content.v
                           \o <<"\n", "\n">>)

\* One iteration of the loop of _format_conversation_history
FormatTurn(msg) ==
    IF msg.t # "dict" THEN Raised(NoAttribute(msg, "get"))
    ELSE LET role    == Get(msg, "role", StrV(<<"u","n","k","n","o","w","n">>))
             content == Get(msg, "content", StrV(<<>>))
         IN  IF role.t # "str" THEN Raised(NoAttribute(role, "capitalize"))
             ELSE Returned(Capitalize(role.v) \o <<":", " ">> \o content.v
                           \o <<"\n", "\n">>)

RECURSIVE FormatTurns(_, _)
FormatTurns(turns, acc) ==
    IF turns = <<>> THEN Returned(acc)
    ELSE LET one == FormatTurn(Head(turns))
         IN  IF one.ok THEN FormatTurns(Tail(turns), acc \o one.value)
             ELSE one

\* CrewAIHandler._format_conversation_history
\* (iterating a str yields its characters, each of them a str)
_format_conversation_history(conversation_history) ==
    IF ~Truthy(conversation_history) THEN Returned(NO_PREVIOUS)
    ELSE IF conversation_history.t = "list"
         THEN FormatTurns(conversation_history.v, <<>>)
    ELSE IF conversation_history.t = "str"
         THEN FormatTurns([i \in 1..Len(conversation_history.v) |->
                              StrV(<<conversation_history.v[i]>>)], <<>>)
    ELSE Raised(NoAttribute(StrV(<<>>), "get"))

(* ----------------------------- payloads -------------------------------- *)
\* What a client can send as the data of a 'message' event: a str (to be
\* decoded by json.loads) or already structured data.
TextPayload(text)  == [isStr |-> TRUE,  text |-> text, data |-> NoneV]
DataPayload(value) == [isStr |-> FALSE, text |-> "",   data |-> value]

HiDict == DictV([user_input |-> StrV(<<"H","i">>)])

HistoryDict ==
    DictV([user_input |-> StrV(<<"H","i">>),
           title_context |-> StrV(<<"T">>),
           conversation_history |->
               ListV(<< DictV([role |-> StrV(<<"u","S","E","R">>),
                               content |-> StrV(<<"y","o">>)]),
                        DictV([content |-> StrV(<<"o","k">>)]) >>)])

BadHistoryDict ==
    DictV([user_input |-> StrV(<<"H","i">>),
           conversation_history |-> ListV(<< StrV(<<"h","i">>) >>)])

\* json.loads on the texts the model sends: what each decodes to, or
\* JSONDecodeError
json_loads(text) ==
    CASE text = "{\"user_input\":\"Hi\"}" -> Returned(HiDict)
      [] text = "[1]"                     -> Returned(ListV(<<1>>))
      [] text = "null"                    -> Returned(NoneV)
      [] OTHER                            -> Raised("JSONDecodeError")

Payloads == << TextPayload("not json"),
               TextPayload("{\"user_input\":\"Hi\"}"),
               DataPayload(HistoryDict),
               DataPayload(BadHistoryDict),
               TextPayload("[1]") >>

PayloadIds == 1..Len(Payloads)

\* The synchronous part of handle_message up to the thread start:
\*   "json_error"  json.loads raised JSONDecodeError
\*   "exception"   another exception was raised before the thread start
\*   "spawn"       process_streaming started the background thread
Decode(p) == IF p.isStr THEN json_loads(p.text) ELSE Returned(p.data)

\* mutant: the history is formatted inside the thread, after the handler
\* has returned
HandleOutcome_FormatInThread(p) ==
    LET dec == Decode(p) IN
    IF ~dec.ok THEN [kind |-> "json_error", msg |-> INVALID_JSON]
    ELSE IF dec.value.t # "dict"
         THEN [kind |-> "exception", msg |-> NoAttribute(dec.value, "get")]
    ELSE [kind |-> "spawn", msg |-> ""]

HandleOutcome(p) ==
    LET dec == Decode(p) IN
    IF ~dec.ok THEN [kind |-> "json_error", msg |-> INVALID_JSON]
    ELSE IF dec.value.t # "dict"
         THEN [kind |-> "exception", msg |-> NoAttribute(dec.value, "get")]
    ELSE LET fmt == _format_conversation_history(
                        Get(dec.value, "conversation_history", ListV(<<>>)))
         IN  IF fmt.ok THEN [kind |-> "spawn", msg |-> ""]
             ELSE [kind |-> "exception", msg |-> fmt.err]

(* ------------------------------ requests ------------------------------- *)
\* pc of a request: where its processing stands
\*   "rejected"     handle_message answered it itself (an except branch)
\*   "spawned"      thread.start() done, run_process not yet running
\*   "kickoff"      run_process is inside Agent/Task/Crew/crew.kickoff()
\*   "returned"     crew.kickoff() returned, line 104 not yet executed
\*   "except"       an exception reached line 106, line 109 not yet executed
\*   "except_done"  line 109 executed, line 110 not yet executed
\*   "finished"     run_process ended
NewRequest(sid, pid, pc) ==
    [sid |-> sid, payload |-> pid, pc |-> pc, ntok |-> 0,
     invoked |-> FALSE, exc |-> "", events |-> <<>>]

Rids == 1..Len(requests)

\* str(e) of the exceptions the external framework raises in the model
ExcMessages == {"agent call failed"}

\* the k-th token the external framework hands to on_new_token
TokenText(k) == IF k = 1 THEN "Hel" ELSE IF k = 2 THEN "lo" ELSE "!"

(* ------------------------------ registry ------------------------------- *)
\* active_connections[sid] = {...}
RegistryInsert(reg, sid, entry) ==
    [x \in DOMAIN reg \cup {sid} |-> IF x = sid THEN entry ELSE reg[x]]

\* mutant: the entry is never deleted
RegistryRemove_Keep(reg, sid) == reg

\* mutant: an unknown sid resets the registry
RegistryRemove_ResetOnUnknown(reg, sid) ==
    IF sid \in DOMAIN reg THEN [x \in DOMAIN reg \ {sid} |-> reg[x]] ELSE <<>>

\* if sid in active_connections: del active_connections[sid]
RegistryRemove(reg, sid) ==
    IF sid \in DOMAIN reg THEN [x \in DOMAIN reg \ {sid} |-> reg[x]] ELSE reg

\* request.remote_addr of the connection with this sid
RemoteAddr(sid) == sid

RECURSIVE SumOver(_, _)
SumOver(f, S) == IF S = {} THEN 0
                 ELSE LET x == CHOOSE y \in S : TRUE
                      IN  f[x] + SumOver(f, S \ {x})

TotalConnects    == SumOver(connects, Sids)
TotalDisconnects == SumOver(disconnects, Sids)
TotalPings       == SumOver(pings, Sids)

\* inbound Socket.IO events handled so far
Inbound == TotalConnects + TotalDisconnects + TotalPings + Len(requests)

(* -------- direct calls of _format_conversation_history ---------------- *)
\* The conversation_history argument of a call: absent (the parameter's
\* default None), or a list of turns, each an index into Turns.
NoHistory == [present |-> FALSE, turns |-> <<>>]

\* the call has not been made
NotCalled == [ok |-> FALSE, value |-> <<>>, err |-> "not called"]

\* the turns a history is built from in these calls: objects with or
\* without role and content, and a turn that is not an object
Turns == << DictV([role |-> StrV(<<"u","s","e","r">>),
                   content |-> StrV(<<"h","i">>)]),
            DictV([role |-> StrV(<<"A","I">>),
                   content |-> StrV(<<"o","k">>)]),
            DictV([content |-> StrV(<<"y","o">>)]),
            DictV([role |-> StrV(<<"b","o","t">>)]),
            DictV(<<>>),
            StrV(<<"x">>) >>

RECURSIVE SeqsUpTo(_, _)
SeqsUpTo(S, n) ==
    IF n = 0 THEN {<<>>}
    ELSE LET shorter == SeqsUpTo(S, n - 1)
         IN  shorter \cup {Append(q, x) : q \in shorter, x \in S}

Histories ==
    {NoHistory} \cup
    {[present |-> TRUE, turns |-> q] : q \in SeqsUpTo(1..Len(Turns), MaxTurns)}

\* the Python value of a history
HistoryValue(h) ==
    IF ~h.present THEN NoneV
    ELSE ListV([i \in 1..Len(h.turns) |-> Turns[h.turns[i]]])

(* ------------------------------- Init ---------------------------------- *)
\* Module import: CrewAIHandler.__init__ either builds the LLM or, when LLM()
\* raises, leaves self.llm = None; the registry is empty.
Init ==
    /\ llm \in {"LLM", "None"}
    /\ active_connections = <<>>
    /\ transport = [s \in Sids |-> "new"]
    /\ requests = <<>>
    /\ acks = [s \in Sids |-> <<>>]
    /\ connects = [s \in Sids |-> 0]
    /\ disconnects = [s \in Sids |-> 0]
    /\ pongs = [s \in Sids |-> 0]
    /\ pings = [s \in Sids |-> 0]
    /\ fmt_in = NoHistory
    /\ fmt_out = NotCalled

(* --------------------------- Socket.IO handlers ------------------------ *)
\* mutant: the acknowledgement ends the stream before the greeting
ConnectAck_DoneFirst(sid) == << Done(sid), Token(sid, GREETING) >>

\* events of the connect acknowledgement (lines 157-158)
ConnectAck(sid) == << Token(sid, GREETING), Done(sid) >>

\* @socketio.on('connect'): the transport hands every connection a new sid
handle_connect(sid) ==
    /\ transport[sid] = "new"
    /\ Inbound < MaxInbound
    /\ transport' = [transport EXCEPT ![sid] = "open"]
    /\ active_connections' =
           RegistryInsert(active_connections, sid,
                          [connected_at |-> TotalConnects + 1,
                           ip |-> RemoteAddr(sid)])
    /\ acks' = [acks EXCEPT ![sid] = @ \o ConnectAck(sid)]
    /\ connects' = [connects EXCEPT ![sid] = @ + 1]
    /\ UNCHANGED <<fmt_in, fmt_out, llm, requests, disconnects, pings, pongs>>

\* mutant: the disconnect cancels the session's requests in flight
handle_disconnect_Cancel(sid) ==
    /\ Inbound < MaxInbound
    /\ active_connections' = RegistryRemove(active_connections, sid)
    /\ transport' = [transport EXCEPT ![sid] =
                        IF @ = "open" THEN "closed" ELSE @]
    /\ disconnects' = [disconnects EXCEPT ![sid] = @ + 1]
    /\ requests' = [r \in DOMAIN requests |->
                       IF requests[r].sid = sid /\ requests[r].pc # "rejected"
                       THEN [requests[r] EXCEPT !.pc = "finished"]
                       ELSE requests[r]]
    /\ UNCHANGED <<fmt_in, fmt_out, llm, acks, connects, pings, pongs>>

\* @socketio.on('disconnect'): may arrive for a sid that is not (or no
\* longer) in the registry, which the handler tests for
handle_disconnect(sid) ==
    /\ Inbound < MaxInbound
    /\ active_connections' = RegistryRemove(active_connections, sid)
    /\ transport' = [transport EXCEPT ![sid] =
                        IF @ = "open" THEN "closed" ELSE @]
    /\ disconnects' = [disconnects EXCEPT ![sid] = @ + 1]
    /\ UNCHANGED <<fmt_in, fmt_out, llm, requests, acks, connects, pings, pongs>>

\* mutant: the pong is emitted with broadcast=True, to every session
handle_ping_Broadcast(sid) ==
    /\ transport[sid] = "open"
    /\ Inbound < MaxInbound
    /\ pongs' = [s \in Sids |->
                   IF transport[s] = "open" THEN pongs[s] + 1 ELSE pongs[s]]
    /\ pings' = [pings EXCEPT ![sid] = @ + 1]
    /\ UNCHANGED <<fmt_in, fmt_out, llm, active_connections, transport, requests, acks,
                   connects, disconnects>>

\* @socketio.on('ping'): emit('pong') to the pinging session
handle_ping(sid) ==
    /\ transport[sid] = "open"
    /\ Inbound < MaxInbound
    /\ pongs' = [pongs EXCEPT ![sid] = @ + 1]
    /\ pings' = [pings EXCEPT ![sid] = @ + 1]
    /\ UNCHANGED <<fmt_in, fmt_out, llm, active_connections, transport, requests, acks,
                   connects, disconnects>>

\* GET /api/health: the response body; the request changes no state
health_response ==
    [status |-> "healthy",
     active_connections |-> Cardinality(DOMAIN active_connections)]

health_check == UNCHANGED vars

\* events of the two except branches of handle_message
\* mutant: the JSONDecodeError branch forgets its Done
InvalidJsonEvents_NoDone(sid) ==
    << Error(sid, INVALID_JSON) >>

InvalidJsonEvents(sid) ==
    << Error(sid, INVALID_JSON), Done(sid) >>
ServerErrorEvents(sid, msg) ==
    << Error(sid, "Server error: " \o msg), Done(sid) >>

\* mutant: process_streaming joins its thread, so the handler of the next
\* message waits until every earlier generation is over
handle_message_Join(sid, pid) ==
    /\ \A r \in Rids : requests[r].pc \in {"rejected", "finished"}
    /\ transport[sid] = "open"
    /\ Inbound < MaxInbound
    /\ Len(requests) < MaxRequests
    /\ LET out == HandleOutcome(Payloads[pid])
       IN  requests' = Append(requests,
               CASE out.kind = "json_error" ->
                      [NewRequest(sid, pid, "rejected")
                           EXCEPT !.events = InvalidJsonEvents(sid)]
                 [] out.kind = "exception" ->
                      [NewRequest(sid, pid, "rejected")
                           EXCEPT !.events = ServerErrorEvents(sid, out.msg)]
                 [] OTHER -> NewRequest(sid, pid, "spawned"))
    /\ UNCHANGED <<fmt_in, fmt_out, llm, active_connections, transport, acks, pongs,
                   connects, disconnects, pings>>

\* mutant: the except branches also close the connection of the sender
\* (disconnect() is imported from flask_socketio) and drop its entry
handle_message_DropOnError(sid, pid) ==
    /\ transport[sid] = "open"
    /\ Inbound < MaxInbound
    /\ Len(requests) < MaxRequests
    /\ LET out == HandleOutcome(Payloads[pid])
       IN  /\ requests' = Append(requests,
                 CASE out.kind = "json_error" ->
                        [NewRequest(sid, pid, "rejected")
                             EXCEPT !.events = InvalidJsonEvents(sid)]
                   [] out.kind = "exception" ->
                        [NewRequest(sid, pid, "rejected")
                             EXCEPT !.events = ServerErrorEvents(sid, out.msg)]
                   [] OTHER -> NewRequest(sid, pid, "spawned"))
           /\ active_connections' =
                 IF out.kind = "spawn" THEN active_connections
                 ELSE RegistryRemove(active_connections, sid)
    /\ UNCHANGED <<fmt_in, fmt_out, llm, transport, acks, pongs,
                   connects, disconnects, pings>>

\* @socketio.on('message'): decode, format the history, start the thread;
\* both except branches answer the sender before the handler returns
handle_message(sid, pid) ==
    /\ transport[sid] = "open"
    /\ Inbound < MaxInbound
    /\ Len(requests) < MaxRequests
    /\ LET out == HandleOutcome(Payloads[pid])
       IN  requests' = Append(requests,
               CASE out.kind = "json_error" ->
                      [NewRequest(sid, pid, "rejected")
                           EXCEPT !.events = InvalidJsonEvents(sid)]
                 [] out.kind = "exception" ->
                      [NewRequest(sid, pid, "rejected")
                           EXCEPT !.events = ServerErrorEvents(sid, out.msg)]
                 [] OTHER -> NewRequest(sid, pid, "spawned"))
    /\ UNCHANGED <<fmt_in, fmt_out, llm, active_connections, transport, acks, pongs,
                   connects, disconnects, pings>>

(* ------------------- the background thread run_process ----------------- *)
\* An emit to the room of a session that has gone is dropped by the server
\* without an exception, and the data of the 'Starting', Error and Done
\* emits are literals and str(e).  The one emit whose data comes from the
\* framework is the token of on_new_token: it is the emit that can raise,
\* and the one the code wraps in try/except.
\* mutant: the room is the sid of the latest message (one shared variable
\* instead of the closure's own sid)
Emit_LatestSid(r, kind, text) ==
    [requests EXCEPT ![r].events =
        Append(@, [room |-> requests[Len(requests)].sid,
                   kind |-> kind, text |-> text])]

\* mutant: the newest event overtakes the ones emitted before it
Emit_Prepend(r, kind, text) ==
    [requests EXCEPT ![r].events =
        <<[room |-> requests[r].sid, kind |-> kind, text |-> text]>> \o @]

\* socketio.emit('message', data, room=sid) in the thread of request r:
\* sid is the parameter process_streaming was called with for this request
Emit(r, kind, text) ==
    [requests EXCEPT ![r].events =
        Append(@, [room |-> requests[r].sid, kind |-> kind, text |-> text])]

\* mutant: the run starts with the agent set-up and sends no 'Starting to
\* process' token
WorkerStart_NoStarting(r) ==
    /\ requests[r].pc = "spawned"
    /\ requests' =
         IF llm = "None"
         THEN [requests EXCEPT ![r].pc = "except", ![r].exc = LLM_NOT_INIT]
         ELSE [requests EXCEPT ![r].pc = "kickoff", ![r].invoked = TRUE]
    /\ UNCHANGED <<fmt_in, fmt_out, llm, active_connections, transport, acks, pongs,
                   connects, disconnects, pings>>

\* mutant: the LLM is not checked before the run starts
WorkerStart_NoCheck(r) ==
    /\ requests[r].pc = "spawned"
    /\ requests' = [Emit(r, "token", STARTING)
                       EXCEPT ![r].pc = "kickoff", ![r].invoked = TRUE]
    /\ UNCHANGED <<fmt_in, fmt_out, llm, active_connections, transport, acks, pongs,
                   connects, disconnects, pings>>

\* lines 44-50: the LLM check and the 'Starting to process' token
WorkerStart(r) ==
    /\ requests[r].pc = "spawned"
    /\ requests' =
         IF llm = "None"
         THEN [requests EXCEPT ![r].pc = "except", ![r].exc = LLM_NOT_INIT]
         ELSE [Emit(r, "token", STARTING)
                   EXCEPT ![r].pc = "kickoff", ![r].invoked = TRUE]
    /\ UNCHANGED <<fmt_in, fmt_out, llm, active_connections, transport, acks, pongs,
                   connects, disconnects, pings>>

\* mutant: on_new_token has no try/except, so a failed send propagates out
\* of crew.kickoff() into the except branch of run_process
on_new_token_Propagate(r, sent) ==
    /\ requests[r].pc = "kickoff"
    /\ requests[r].ntok < MaxTokens
    /\ requests' =
         IF sent
         THEN [Emit(r, "token", TokenText(requests[r].ntok + 1))
                  EXCEPT ![r].ntok = @ + 1]
         ELSE [requests EXCEPT ![r].ntok = @ + 1, ![r].pc = "except",
                               ![r].exc = "send failed"]
    /\ UNCHANGED <<fmt_in, fmt_out, llm, active_connections, transport, acks, pongs,
                   connects, disconnects, pings>>

\* StreamingObserver.on_new_token, called by the framework during kickoff;
\* sent = FALSE: socketio.emit raised and the except at line 57 logged it
on_new_token(r, sent) ==
    /\ requests[r].pc = "kickoff"
    /\ requests[r].ntok < MaxTokens
    /\ requests' =
         [(IF sent
           THEN Emit(r, "token", TokenText(requests[r].ntok + 1))
           ELSE requests)
              EXCEPT ![r].ntok = @ + 1]
    /\ UNCHANGED <<fmt_in, fmt_out, llm, active_connections, transport, acks, pongs,
                   connects, disconnects, pings>>

\* mutant: the thread ends when crew.kickoff() returns, without line 104
KickoffReturn_Finish(r) ==
    /\ requests[r].pc = "kickoff"
    /\ requests' = [requests EXCEPT ![r].pc = "finished"]
    /\ UNCHANGED <<fmt_in, fmt_out, llm, active_connections, transport, acks,
                   pongs, connects, disconnects, pings>>

\* crew.kickoff() returns (line 101)
KickoffReturn(r) ==
    /\ requests[r].pc = "kickoff"
    /\ requests' = [requests EXCEPT ![r].pc = "returned"]
    /\ UNCHANGED <<fmt_in, fmt_out, llm, active_connections, transport, acks, pongs,
                   connects, disconnects, pings>>

\* Agent(), Task(), Crew() or crew.kickoff() raises (lines 61-101)
KickoffRaise(r, msg) ==
    /\ requests[r].pc = "kickoff"
    /\ requests' = [requests EXCEPT ![r].pc = "except", ![r].exc = msg]
    /\ UNCHANGED <<fmt_in, fmt_out, llm, active_connections, transport, acks, pongs,
                   connects, disconnects, pings>>

\* mutant: completion is signalled twice (once more from a finally block)
EmitDone_Twice(r) ==
    /\ requests[r].pc = "returned"
    /\ requests' = [requests EXCEPT
                       ![r].events = @ \o << Done(requests[r].sid),
                                             Done(requests[r].sid) >>,
                       ![r].pc = "finished"]
    /\ UNCHANGED <<fmt_in, fmt_out, llm, active_connections, transport, acks, pongs,
                   connects, disconnects, pings>>

\* line 104: signal completion
EmitDone(r) ==
    /\ requests[r].pc = "returned"
    /\ requests' = [Emit(r, "done", "") EXCEPT ![r].pc = "finished"]
    /\ UNCHANGED <<fmt_in, fmt_out, llm, active_connections, transport, acks, pongs,
                   connects, disconnects, pings>>

\* mutant: the Error event does not carry str(e)
ExceptEmitError_NoMessage(r) ==
    /\ requests[r].pc = "except"
    /\ requests' = [Emit(r, "error", "Processing error")
                       EXCEPT ![r].pc = "except_done"]
    /\ UNCHANGED <<fmt_in, fmt_out, llm, active_connections, transport, acks, pongs,
                   connects, disconnects, pings>>

\* line 109: the Error event of the except block
ExceptEmitError(r) ==
    /\ requests[r].pc = "except"
    /\ requests' =
         [Emit(r, "error", "Processing error: " \o requests[r].exc)
              EXCEPT ![r].pc = "except_done"]
    /\ UNCHANGED <<fmt_in, fmt_out, llm, active_connections, transport, acks, pongs,
                   connects, disconnects, pings>>

\* mutant: the except block ends after its Error event, without a Done
ExceptEmitDone_Missing(r) ==
    /\ requests[r].pc = "except_done"
    /\ requests' = [requests EXCEPT ![r].pc = "finished"]
    /\ UNCHANGED <<fmt_in, fmt_out, llm, active_connections, transport, acks, pongs,
                   connects, disconnects, pings>>

\* line 110: the Done event of the except block
ExceptEmitDone(r) ==
    /\ requests[r].pc = "except_done"
    /\ requests' = [Emit(r, "done", "") EXCEPT ![r].pc = "finished"]
    /\ UNCHANGED <<fmt_in, fmt_out, llm, active_connections, transport, acks, pongs,
                   connects, disconnects, pings>>

(* --------------------------- specifications ---------------------------- *)
Connect       == \E s \in Sids : handle_connect(s)
Disconnect    == \E s \in Sids : handle_disconnect(s)
Ping          == \E s \in Sids : handle_ping(s)
Message       == \E s \in Sids, pid \in PayloadIds : handle_message(s, pid)
Start         == \E r \in Rids : WorkerStart(r)
NewToken      == \E r \in Rids, sent \in BOOLEAN : on_new_token(r, sent)
Return        == \E r \in Rids : KickoffReturn(r)
Raise         == \E r \in Rids, msg \in ExcMessages : KickoffRaise(r, msg)
SuccessDone   == \E r \in Rids : EmitDone(r)
FailureError  == \E r \in Rids : ExceptEmitError(r)
FailureDone   == \E r \in Rids : ExceptEmitDone(r)

Next ==
    \/ Connect
    \/ Disconnect
    \/ Ping
    \/ health_check
    \/ Message
    \/ Start
    \/ NewToken
    \/ Return
    \/ Raise
    \/ SuccessDone
    \/ FailureError
    \/ FailureDone

Spec == Init /\ [][Next]_vars

\* The threading module schedules every started thread: a step of
\* run_process that is the code's own (not the external call) is taken
\* eventually.  Nothing is assumed about crew.kickoff() ending.
WorkerFairness ==
    \A r \in 1..MaxRequests :
        /\ WF_vars(r \in Rids /\ WorkerStart(r))
        /\ WF_vars(r \in Rids /\ EmitDone(r))
        /\ WF_vars(r \in Rids /\ ExceptEmitError(r))
        /\ WF_vars(r \in Rids /\ ExceptEmitDone(r))

FairSpec == Spec /\ WorkerFairness

\* _format_conversation_history called on its own, once, with each history
\* of at most MaxTurns turns
FormatInit ==
    /\ llm = "LLM"
    /\ active_connections = <<>>
    /\ transport = [s \in Sids |-> "new"]
    /\ requests = <<>>
    /\ acks = [s \in Sids |-> <<>>]
    /\ connects = [s \in Sids |-> 0]
    /\ disconnects = [s \in Sids |-> 0]
    /\ pongs = [s \in Sids |-> 0]
    /\ pings = [s \in Sids |-> 0]
    /\ fmt_in \in Histories
    /\ fmt_out = NotCalled

FormatCall ==
    /\ fmt_out = NotCalled
    /\ fmt_out' = _format_conversation_history(HistoryValue(fmt_in))
    /\ UNCHANGED <<llm, active_connections, transport, requests, acks, pongs,
                   connects, disconnects, pings, fmt_in>>

FormatNext == FormatCall

FormatSpec == FormatInit /\ [][FormatNext]_vars

(* ======================================================================= *)
(*                               Properties                                *)
(* ======================================================================= *)
KindCount(evs, kind) == Cardinality({i \in 1..Len(evs) : evs[i].kind = kind})
HasKind(evs, kind)   == \E i \in 1..Len(evs) : evs[i].kind = kind
Kinds(evs)           == [i \in 1..Len(evs) |-> evs[i].kind]

\* request r is over: answered by handle_message itself, or its thread ended
Terminal(r) == requests[r].pc \in {"rejected", "finished"}

\* a Done event of request r has been emitted to the session that sent it
DoneSent(r) ==
    \E i \in 1..Len(requests[r].events) :
        /\ requests[r].events[i].kind = "done"
        /\ requests[r].events[i].room = requests[r].sid

\* The payload is a str that json.loads cannot decode.
Undecodable(pid) ==
    Payloads[pid].isStr /\ ~json_loads(Payloads[pid].text).ok

\* The payload has the inbound message shape: it is, or decodes to, an
\* object whose conversation_history, when present, is a list of objects
\* whose role, when present, is a string.
WellFormed(pid) ==
    /\ ~Undecodable(pid)
    /\ LET v == Decode(Payloads[pid]).value IN
       /\ v.t = "dict"
       /\ "conversation_history" \in DOMAIN v.v =>
            /\ v.v.conversation_history.t = "list"
            /\ \A i \in 1..Len(v.v.conversation_history.v) :
                 LET turn == v.v.conversation_history.v[i] IN
                 /\ turn.t = "dict"
                 /\ "role" \in DOMAIN turn.v => turn.v.role.t = "str"

(* ------------------------------- C1 ------------------------------------ *)
\* C1: the events emitted for a request contain at most one Done, nothing
\* is emitted for the request after its Done, and a request that is over
\* (rejected by handle_message, or its thread ended on the success or the
\* failure path) has exactly one Done, as its last event.
C1_ExactlyOneDoneLast ==
    \A r \in Rids :
        LET evs == requests[r].events IN
        /\ KindCount(evs, "done") <= 1
        /\ \A i \in 1..Len(evs) : evs[i].kind = "done" => i = Len(evs)
        /\ Terminal(r) => /\ KindCount(evs, "done") = 1
                          /\ evs[Len(evs)].kind = "done"

\* Witness: a request that streamed tokens and ended normally next to a
\* request whose external call raised, both over.
C1_Witness ==
    \E r1, r2 \in Rids :
        /\ requests[r1].pc = "finished" /\ requests[r1].exc = ""
        /\ KindCount(requests[r1].events, "token") >= 2
        /\ requests[r2].pc = "finished" /\ requests[r2].exc \in ExcMessages
        /\ HasKind(requests[r2].events, "error")

(* ------------------------------- C2 ------------------------------------ *)
\* a failure path of request r: rejected by handle_message, thread started
\* with the LLM unavailable, or an exception reached the except block
OnFailurePath(r) ==
    /\ r \in Rids
    /\ \/ requests[r].pc \in {"rejected", "except", "except_done"}
       \/ requests[r].pc = "spawned" /\ llm = "None"

\* C2: under fair scheduling of the worker thread, every request on a
\* failure path (malformed payload, agent unavailable, external call
\* raised) eventually has its Done emitted to the sender.
C2_FailureReachesDone ==
    \A r \in 1..MaxRequests :
        [](OnFailurePath(r) => <>(r \in Rids /\ DoneSent(r)))

\* Witness: the external call of a request has raised after a token was
\* forwarded, and neither Error nor Done has been emitted yet.
C2_Witness ==
    \E r \in Rids :
        /\ requests[r].pc = "except" /\ requests[r].exc \in ExcMessages
        /\ requests[r].ntok >= 1
        /\ ~HasKind(requests[r].events, "done")

(* ------------------------------- C3 ------------------------------------ *)
\* C3: a request whose payload json.loads cannot decode has, from the moment
\* handle_message returns, exactly the events [Error "Invalid message
\* format. Expected JSON.", Done] addressed to the sender; it never has a
\* Token, a background thread or an external agent invocation.
C3_MalformedRejected ==
    \A r \in Rids :
        Undecodable(requests[r].payload) =>
            /\ requests[r].events =
                  << [room |-> requests[r].sid, kind |-> "error",
                      text |-> "Invalid message format. Expected JSON."],
                     [room |-> requests[r].sid, kind |-> "done", text |-> ""] >>
            /\ requests[r].pc = "rejected"
            /\ ~requests[r].invoked
            /\ requests[r].ntok = 0

\* Witness: a malformed payload was answered while another request of the
\* same session is streaming.
C3_Witness ==
    \E r, q \in Rids :
        /\ Undecodable(requests[r].payload)
        /\ Len(requests[r].events) = 2
        /\ requests[q].sid = requests[r].sid
        /\ requests[q].pc = "kickoff"

(* ------------------------------- C4 ------------------------------------ *)
\* the Token events of request r so far
HasToken(r) == HasKind(requests[r].events, "token")

\* C4 as stated: every well-formed message whose processing is over got at
\* least one Token event and then exactly one Done.
C4_Original ==
    \A r \in Rids :
        WellFormed(requests[r].payload) /\ Terminal(r) =>
            /\ HasToken(r)
            /\ KindCount(requests[r].events, "done") = 1

\* C4 (amended): with the LLM initialized, a well-formed message eventually
\* gets at least one Token (the 'Starting to process' token comes first),
\* and once its external call has returned or raised it eventually gets its
\* Done; the Done is the only one, comes after the Tokens and is the last
\* event.  With the LLM not initialized the request gets no Token at all.
C4_TokenThenOneDone ==
    /\ [](\A r \in Rids :
            LET evs == requests[r].events IN
            WellFormed(requests[r].payload) =>
               /\ llm = "LLM" /\ evs # <<>> =>
                     evs[1] = [room |-> requests[r].sid, kind |-> "token",
                               text |-> "Starting to process your request..."]
               /\ llm = "LLM" /\ DoneSent(r) =>
                     /\ HasToken(r)
                     /\ KindCount(evs, "done") = 1
                     /\ evs[Len(evs)].kind = "done"
               /\ llm = "None" => ~HasToken(r))
    /\ \A r \in 1..MaxRequests :
         /\ [](r \in Rids /\ WellFormed(requests[r].payload) /\ llm = "LLM"
                 => <>(r \in Rids /\ HasToken(r)))
         /\ [](r \in Rids /\ WellFormed(requests[r].payload)
                          /\ requests[r].pc \in {"returned", "except"}
                 => <>(r \in Rids /\ DoneSent(r)))

\* Witness: the message {"user_input":"Hi"}, sent as a str, was answered
\* with the 'Starting' token, a generated token and a Done.
C4_Witness ==
    \E r \in Rids :
        /\ Payloads[requests[r].payload].isStr
        /\ WellFormed(requests[r].payload)
        /\ llm = "LLM"
        /\ Kinds(requests[r].events) = <<"token", "token", "done">>

(* ------------------------------- C5 ------------------------------------ *)
\* the failure message of request r: str(e) of the exception that reached
\* the except block of run_process
Failed(r) == requests[r].exc # ""

\* C5: a request has at most one Error event, and the only event after an
\* Error is the request's Done (no Token follows it).  When the LLM is not
\* initialized or the external call raised, the Error the worker emits
\* carries the failure message, and the worker ends with [.., Error, Done].
C5_ErrorThenOnlyDone ==
    \A r \in Rids :
        LET evs == requests[r].events IN
        /\ KindCount(evs, "error") <= 1
        /\ \A i \in 1..Len(evs) :
              evs[i].kind = "error" =>
                 /\ i >= Len(evs) - 1
                 /\ i < Len(evs) => evs[i + 1].kind = "done"
        /\ Failed(r) /\ requests[r].pc \in {"except_done", "finished"} =>
              \E i \in 1..Len(evs) :
                 /\ evs[i].kind = "error"
                 /\ evs[i].text = "Processing error: " \o requests[r].exc
        /\ llm = "None" /\ requests[r].pc = "finished" =>
              evs[1].text = "Processing error: LLM is not initialized properly"
        /\ Failed(r) /\ requests[r].pc = "finished" =>
              /\ Len(evs) >= 2
              /\ evs[Len(evs) - 1].kind = "error"
              /\ evs[Len(evs)].kind = "done"

\* Witness: the external call raised after tokens had been forwarded; the
\* request then got its Error and its Done.
C5_Witness ==
    \E r \in Rids :
        /\ requests[r].exc \in ExcMessages
        /\ requests[r].pc = "finished"
        /\ Kinds(requests[r].events) = <<"token", "token", "error", "done">>

(* ------------------------------- C6 ------------------------------------ *)
\* C6: with the LLM not initialized, a well-formed request never gets a
\* Token and never reaches the external framework; what it gets is a
\* prefix of [Error "Processing error: LLM is not initialized properly",
\* Done], all of it once its thread has ended.  The handlers stay
\* available: a new session can connect and an open session can send a
\* message whatever state earlier requests are in.
C6_UnavailableAgent ==
    llm = "None" =>
        /\ \A r \in Rids :
              WellFormed(requests[r].payload) =>
                 LET evs  == requests[r].events
                     full == << [room |-> requests[r].sid, kind |-> "error",
                                 text |-> "Processing error: LLM is not initialized properly"],
                                [room |-> requests[r].sid, kind |-> "done",
                                 text |-> ""] >>
                 IN  /\ ~HasToken(r)
                     /\ ~requests[r].invoked
                     /\ requests[r].ntok = 0
                     /\ Len(evs) <= 2
                     /\ evs = SubSeq(full, 1, Len(evs))
                     /\ requests[r].pc = "finished" => evs = full
        /\ Inbound < MaxInbound =>
              \A s \in Sids :
                 /\ transport[s] = "new" => ENABLED handle_connect(s)
                 /\ transport[s] = "open" /\ Len(requests) < MaxRequests =>
                       \A pid \in PayloadIds : ENABLED handle_message(s, pid)

\* Witness: after a request failed for lack of an LLM, another session
\* connected and its message was answered the same way.
C6_Witness ==
    /\ llm = "None"
    /\ Len(requests) = 2
    /\ requests[1].sid # requests[2].sid
    /\ connects[requests[2].sid] = 1
    /\ \A r \in Rids :
          /\ WellFormed(requests[r].payload)
          /\ requests[r].pc = "finished"
          /\ Kinds(requests[r].events) = <<"error", "done">>

(* ------------------------------- C7 ------------------------------------ *)
\* the count the health endpoint reports
RegistrySize == health_response.active_connections

\* C7 as stated: the registry size is the number of connect events minus
\* the number of disconnect events handled so far.
C7_Original == RegistrySize = TotalConnects - TotalDisconnects

\* the sessions whose connection was closed by a disconnect event, i.e. the
\* disconnect events that arrived for a connected session
ClosedSessions == {s \in Sids : transport[s] = "closed"}

\* C7 (amended): the registry holds exactly the sessions that connected and
\* have not been disconnected since, so its size is the number of connect
\* events minus the number of disconnect events that arrived for a
\* connected session; a disconnect event for a session id that is not
\* connected (never connected, or disconnected before) is not counted.
C7_SizeIsConnectsMinusEffectiveDisconnects ==
    /\ DOMAIN active_connections = {s \in Sids : transport[s] = "open"}
    /\ RegistrySize = TotalConnects - Cardinality(ClosedSessions)
    /\ RegistrySize >= TotalConnects - TotalDisconnects

\* Witness: two sessions connected, one of them disconnected twice.
C7_Witness ==
    \E s, t \in Sids :
        /\ s # t
        /\ connects[s] = 1 /\ connects[t] = 1
        /\ disconnects[s] = 2
        /\ RegistrySize = 1

(* ------------------------------- C8 ------------------------------------ *)
\* a step that handles a 'disconnect' event of session s
DisconnectStep(s) == disconnects'[s] = disconnects[s] + 1

\* C8: a disconnect event for a session id that is not in the registry is
\* handled (no error) and changes nothing: registry, emitted events and
\* requests stay as they are, so a second disconnect leaves the registry
\* as the first one left it.  A disconnect for a registered id removes
\* that entry only.
C8_DisconnectAbsentIsNoOp ==
    /\ [](Inbound < MaxInbound =>
             \A s \in Sids : ENABLED handle_disconnect(s))
    /\ [][\A s \in Sids :
             DisconnectStep(s) =>
                /\ s \notin DOMAIN active_connections =>
                      active_connections' = active_connections
                /\ s \notin DOMAIN active_connections'
                /\ \A x \in Sids \ {s} :
                      /\ x \in DOMAIN active_connections
                            <=> x \in DOMAIN active_connections'
                      /\ x \in DOMAIN active_connections =>
                            active_connections'[x] = active_connections[x]
                /\ acks' = acks /\ pongs' = pongs /\ requests' = requests]_vars

\* Witness: a session was disconnected twice while another session stays
\* registered.
C8_Witness ==
    \E s, t \in Sids :
        /\ s # t
        /\ connects[s] = 1 /\ disconnects[s] = 2
        /\ t \in DOMAIN active_connections

(* ------------------------------- C9 ------------------------------------ *)
\* a step that handles the 'connect' event of session s
ConnectStep(s) == connects'[s] = connects[s] + 1

\* C9: a connect inserts the session id into the registry (the count grows
\* by one: 0 -> 1 for the first client) and emits to that session exactly
\* the greeting Token followed by a Done; the disconnect of a registered
\* session removes its entry (the count drops by one: 1 -> 0 for a lone
\* client).  A registered session has received exactly that greeting.
C9_ConnectGreetsDisconnectRemoves ==
    /\ [](\A s \in Sids :
            /\ s \in DOMAIN active_connections =>
                 acks[s] =
                   << [room |-> s, kind |-> "token",
                       text |-> "Connected to server successfully. Ready for messages!"],
                      [room |-> s, kind |-> "done", text |-> ""] >>
            /\ connects[s] = 0 => acks[s] = <<>>)
    /\ [][\A s \in Sids :
            /\ ConnectStep(s) =>
                 /\ s \in DOMAIN active_connections'
                 /\ Cardinality(DOMAIN active_connections') =
                       Cardinality(DOMAIN active_connections) + 1
                 /\ Kinds(acks'[s]) = Kinds(acks[s]) \o <<"token", "done">>
                 /\ \A x \in Sids \ {s} : acks'[x] = acks[x]
                 /\ requests' = requests
            /\ DisconnectStep(s) /\ s \in DOMAIN active_connections =>
                 /\ s \notin DOMAIN active_connections'
                 /\ Cardinality(DOMAIN active_connections') =
                       Cardinality(DOMAIN active_connections) - 1]_vars

\* Witness: one client connected to the empty registry, was greeted, and
\* disconnected; the count is 0 again.
C9_Witness ==
    \E s \in Sids :
        /\ connects[s] = 1 /\ disconnects[s] = 1
        /\ TotalConnects = 1
        /\ Len(acks[s]) = 2
        /\ RegistrySize = 0

(* ------------------------------- C10 ----------------------------------- *)
\* C10: every event emitted for a request is addressed to the session that
\* sent the request, and every connect acknowledgement to the session that
\* connected.
C10_EventsGoToOriginatingSession ==
    /\ \A r \in Rids :
          \A i \in 1..Len(requests[r].events) :
             requests[r].events[i].room = requests[r].sid
    /\ \A s \in Sids :
          \A i \in 1..Len(acks[s]) : acks[s][i].room = s

\* Witness: two sessions have a request streaming at the same time, each
\* with tokens already forwarded.
C10_Witness ==
    \E r, q \in Rids :
        /\ requests[r].sid # requests[q].sid
        /\ requests[r].pc = "kickoff" /\ requests[q].pc = "kickoff"
        /\ KindCount(requests[r].events, "token") >= 2
        /\ KindCount(requests[q].events, "token") >= 2

(* ------------------------------- C11 ----------------------------------- *)
\* the thread of request r has been started and its external call has not
\* returned or raised yet
Running(r) == requests[r].pc \in {"spawned", "kickoff"}

\* a step that handles an inbound Socket.IO event
InboundStep == Inbound' = Inbound + 1

\* C11: while the worker of a request is still running, handle_message for
\* it has returned (the request is among the handled events), and every
\* handler can be taken for every session, the sender's included: connect
\* for a new session, disconnect for any, ping and message for an open
\* one.  A handler step completes without the generation advancing: it
\* leaves every request already received as it is.
C11_SlowGenerationDoesNotBlock ==
    /\ [](\A r \in Rids :
            Running(r) /\ Inbound < MaxInbound =>
               /\ r <= Inbound
               /\ \A s \in Sids :
                    /\ transport[s] = "new" => ENABLED handle_connect(s)
                    /\ ENABLED handle_disconnect(s)
                    /\ transport[s] = "open" => ENABLED handle_ping(s)
                    /\ transport[s] = "open" /\ Len(requests) < MaxRequests =>
                          \A pid \in PayloadIds : ENABLED handle_message(s, pid))
    /\ [][InboundStep =>
             \A r \in Rids : requests'[r] = requests[r]]_vars

\* Witness: the first request is still inside the external call while a
\* later message of the same session has been received and is over.
C11_Witness ==
    /\ Len(requests) = 2
    /\ requests[1].pc = "kickoff"
    /\ requests[2].sid = requests[1].sid
    /\ requests[2].pc = "finished"
    /\ HasKind(requests[2].events, "token")

(* ------------------------------- C12 ----------------------------------- *)
\* the session that sent request r has been disconnected
SenderGone(r) ==
    /\ transport[requests[r].sid] = "closed"
    /\ requests[r].sid \notin DOMAIN active_connections

\* C12: a disconnect leaves every request as it is (no cancellation, no
\* event); the thread of a request whose session is gone can still take
\* each of its steps, the events it emits are still addressed to the
\* removed session id, and under fair scheduling of the thread the request
\* gets its single Done once its external call has ended (or at once when
\* the LLM is not initialized).
C12_DisconnectDoesNotInterrupt ==
    /\ [][\A s \in Sids : disconnects'[s] = disconnects[s] + 1 =>
             /\ requests' = requests
             /\ llm' = llm /\ acks' = acks /\ pongs' = pongs
             /\ connects' = connects /\ pings' = pings]_vars
    /\ [](\A r \in Rids :
            SenderGone(r) =>
               /\ requests[r].pc = "spawned" => ENABLED WorkerStart(r)
               /\ requests[r].pc = "kickoff" =>
                     /\ ENABLED KickoffReturn(r)
                     /\ \A msg \in ExcMessages : ENABLED KickoffRaise(r, msg)
                     /\ requests[r].ntok < MaxTokens =>
                           ENABLED on_new_token(r, TRUE)
               /\ requests[r].pc = "returned" => ENABLED EmitDone(r)
               /\ requests[r].pc = "except" => ENABLED ExceptEmitError(r)
               /\ requests[r].pc = "except_done" => ENABLED ExceptEmitDone(r)
               /\ \A i \in 1..Len(requests[r].events) :
                     requests[r].events[i].room = requests[r].sid
               /\ KindCount(requests[r].events, "done") <= 1)
    /\ \A r \in 1..MaxRequests :
          [](/\ r \in Rids
             /\ SenderGone(r)
             /\ \/ requests[r].pc \in {"returned", "except", "except_done"}
                \/ requests[r].pc = "spawned" /\ llm = "None"
             => <>(/\ r \in Rids
                   /\ SenderGone(r)
                   /\ requests[r].pc = "finished"
                   /\ KindCount(requests[r].events, "done") = 1))

\* Witness: the session was disconnected while its request was dispatched
\* and before the thread emitted anything.
C12_Witness ==
    \E r \in Rids :
        /\ SenderGone(r)
        /\ requests[r].pc = "spawned"
        /\ requests[r].events = <<>>

(* ------------------------------- C13 ----------------------------------- *)
\* the rendering the claim gives for each turn of Turns that is an object:
\* "<Capitalized role>: <content>" and a blank line, "Unknown" for a
\* missing role, nothing for a missing content
ExpectedBlock(t) ==
    CASE t = 1 -> <<"U","s","e","r",":"," ","h","i","\n","\n">>
      [] t = 2 -> <<"A","i",":"," ","o","k","\n","\n">>
      [] t = 3 -> <<"U","n","k","n","o","w","n",":"," ","y","o","\n","\n">>
      [] t = 4 -> <<"B","o","t",":"," ","\n","\n">>
      [] t = 5 -> <<"U","n","k","n","o","w","n",":"," ","\n","\n">>

ObjectTurns == 1..5

RECURSIVE ExpectedText(_)
ExpectedText(turns) ==
    IF turns = <<>> THEN <<>>
    ELSE ExpectedBlock(Head(turns)) \o ExpectedText(Tail(turns))

\* the number of blank-line-terminated blocks of a text
BlockCount(text) ==
    Cardinality({i \in 1..Len(text) - 1 : text[i] = "\n" /\ text[i + 1] = "\n"})

\* C13: _format_conversation_history returns "No previous conversation."
\* for an absent or empty history, and for a history of N object turns the
\* N rendered blocks in the original order.
C13_FormatConversationHistory ==
    fmt_out # NotCalled =>
        /\ ~fmt_in.present \/ fmt_in.turns = <<>> =>
              /\ fmt_out.ok
              /\ fmt_out.value =
                    <<"N","o"," ","p","r","e","v","i","o","u","s"," ",
                      "c","o","n","v","e","r","s","a","t","i","o","n",".">>
        /\ /\ fmt_in.turns # <<>>
           /\ \A i \in 1..Len(fmt_in.turns) : fmt_in.turns[i] \in ObjectTurns
           => /\ fmt_out.ok
              /\ fmt_out.value = ExpectedText(fmt_in.turns)
              /\ BlockCount(fmt_out.value) = Len(fmt_in.turns)

\* Witness: a history of three turns, with a role in capitals, a missing
\* role and a missing content, has been formatted.
C13_Witness ==
    /\ fmt_in.present
    /\ fmt_in.turns = <<2, 3, 4>>
    /\ fmt_out.ok
    /\ Len(fmt_out.value) > 0

(* ------------------------------- C14 ----------------------------------- *)
\* The states of a request.  Received and Validating lie inside the one
\* step of handle_message; after it the request is Rejected or Dispatched.
Rejected(q)   == q.pc = "rejected"
Dispatched(q) == q.pc = "spawned"
Streaming(q)  == q.pc \in {"kickoff", "returned", "except", "except_done"}
Completed(q)  == q.pc = "finished"

\* the moves of a request between two states of the system
PcMoves ==
    { <<"spawned", "kickoff">>, <<"spawned", "except">>,
      <<"kickoff", "kickoff">>, <<"kickoff", "returned">>,
      <<"kickoff", "except">>, <<"returned", "finished">>,
      <<"except", "except_done">>, <<"except_done", "finished">> }

\* the Done event of a request, addressed to its sender
DoneOf(q) == [room |-> q.sid, kind |-> "done", text |-> ""]

\* C14: a request enters as Rejected (with its Done) or as Dispatched (with
\* nothing emitted), moves only Dispatched -> Streaming -> Completed, never
\* between Rejected and the other states, and never leaves Rejected or
\* Completed, where nothing about it changes any more.  It reaches
\* Completed in the step that emits its Done, and it has a Done exactly
\* when it is Rejected or Completed.  A Rejected request never had a
\* worker (no callback, no external call); a request with a worker got the
\* worker's first emit at most once.
C14_RequestStateMachine ==
    /\ [](\A r \in Rids :
            LET q == requests[r] IN
            /\ Rejected(q) \/ Dispatched(q) \/ Streaming(q) \/ Completed(q)
            /\ Rejected(q) => ~q.invoked /\ q.ntok = 0 /\ Len(q.events) = 2
            /\ HasKind(q.events, "done") <=> Rejected(q) \/ Completed(q)
            /\ Cardinality({i \in 1..Len(q.events) :
                   q.events[i].text = "Starting to process your request..."})
                 <= 1
            /\ Dispatched(q) => q.events = <<>>)
    /\ [][/\ Len(requests') >= Len(requests)
          /\ \A r \in Rids :
               LET a == requests[r]
                   b == requests'[r]
               IN  /\ Rejected(a) \/ Completed(a) => b = a
                   /\ b # a =>
                        /\ <<a.pc, b.pc>> \in PcMoves
                        /\ b.sid = a.sid /\ b.payload = a.payload
                   /\ Completed(b) /\ ~Completed(a) =>
                        b.events = Append(a.events, DoneOf(a))
          /\ Len(requests') > Len(requests) =>
               /\ Len(requests') = Len(requests) + 1
               /\ LET n == requests'[Len(requests')] IN
                  /\ Rejected(n) \/ Dispatched(n)
                  /\ Rejected(n) => n.events[2] = DoneOf(n)]_vars

\* Witness: a Rejected request next to a request that went through
\* Dispatched and Streaming to Completed.
C14_Witness ==
    \E r, q \in Rids :
        /\ Rejected(requests[r])
        /\ Completed(requests[q])
        /\ Kinds(requests[q].events) = <<"token", "token", "done">>

(* ------------------------------- C15 ----------------------------------- *)
\* a step of message handling: handle_message receives a request, or the
\* worker of a request moves
MessageStep == requests' # requests

\* the message of request r was malformed, or its generation failed
Unsuccessful(r) == requests[r].pc = "rejected" \/ Failed(r)

\* C15: no step of handle_message or of a worker changes the registry (nor
\* the connection, nor the connect and disconnect counts), whatever the
\* payload.  A session that is still connected after a rejected or failed
\* request is still registered, handle_message can be taken for it with
\* every payload, and a message received is judged by its payload alone: a
\* well-formed one is dispatched to a worker, whatever came before it.
C15_MessageHandlingKeepsRegistry ==
    /\ [][MessageStep =>
            /\ active_connections' = active_connections
            /\ transport' = transport
            /\ connects' = connects /\ disconnects' = disconnects
            /\ Len(requests') > Len(requests) =>
                 LET n == requests'[Len(requests')] IN
                 WellFormed(n.payload) => n.pc = "spawned" /\ n.events = <<>>
         ]_vars
    /\ [](\A r \in Rids :
            LET s == requests[r].sid IN
            Unsuccessful(r) /\ transport[s] = "open" =>
               /\ s \in DOMAIN active_connections
               /\ Inbound < MaxInbound /\ Len(requests) < MaxRequests =>
                    \A pid \in PayloadIds : ENABLED handle_message(s, pid))

\* Witness: on one session, still registered, a request whose generation
\* failed and a later, valid one that was streamed to its Done.
C15_Witness ==
    /\ Len(requests) = 2
    /\ requests[1].sid = requests[2].sid
    /\ requests[1].sid \in DOMAIN active_connections
    /\ Failed(1) /\ requests[1].pc = "finished"
    /\ WellFormed(requests[2].payload)
    /\ requests[2].pc = "finished" /\ ~Failed(2)
    /\ Kinds(requests[2].events) = <<"token", "token", "token", "done">>

(* ------------------------------- C16 ----------------------------------- *)
\* a step that handles a ping of session s
PingStep(s) == pings'[s] = pings[s] + 1

\* C16: the step that handles a ping of a session emits exactly one pong,
\* to that session and to no other, and changes neither the registry nor
\* any request nor the connect acknowledgements; so every session has
\* received as many pongs as it sent pings.  The health query changes
\* nothing at all and reports the registry size.  A ping can be handled
\* for a connected session whatever its requests are doing, also while one
\* of them is still streaming.
C16_PingAnsweredIndependently ==
    /\ [][\A s \in Sids : PingStep(s) =>
            /\ pongs' = [pongs EXCEPT ![s] = @ + 1]
            /\ active_connections' = active_connections
            /\ transport' = transport
            /\ requests' = requests
            /\ acks' = acks]_vars
    /\ [][health_check =>
            /\ vars' = vars
            /\ health_response' = health_response]_vars
    /\ [](/\ pongs = pings
          /\ health_response.status = "healthy"
          /\ health_response.active_connections =
                Cardinality({s \in Sids : s \in DOMAIN active_connections})
          /\ \A s \in Sids :
                transport[s] = "open" /\ Inbound < MaxInbound =>
                    ENABLED handle_ping(s))

\* Witness: a session got its pong while a request of it is streaming (its
\* external call is running and a generated token has been sent).
C16_Witness ==
    \E r \in Rids :
        /\ requests[r].pc = "kickoff" /\ requests[r].ntok = 1
        /\ Kinds(requests[r].events) = <<"token", "token">>
        /\ pings[requests[r].sid] = 1
        /\ pongs[requests[r].sid] = 1

(* ------------------------------- C17 ----------------------------------- *)
\* The payload decodes to a value that is not an object.
NotAnObject(pid) ==
    ~Undecodable(pid) /\ Decode(Payloads[pid]).value.t # "dict"

\* The payload decodes to an object whose conversation_history is a list
\* with a turn that is not an object.
BadTurn(pid) ==
    /\ ~Undecodable(pid)
    /\ LET v == Decode(Payloads[pid]).value IN
       /\ v.t = "dict"
       /\ "conversation_history" \in DOMAIN v.v
       /\ v.v.conversation_history.t = "list"
       /\ \E i \in 1..Len(v.v.conversation_history.v) :
             v.v.conversation_history.v[i].t # "dict"

\* C17: a payload that decodes but is no usable request is answered inside
\* handle_message with exactly [Error, Done] to the sender, the Error text
\* being "Server error: " followed by the message of the exception; the
\* request is rejected in the step that receives it, no worker runs for it
\* (no callback, no external call) and it gets no Token.
C17_UnusablePayloadRejected ==
    /\ [](\A r \in Rids :
            LET q == requests[r] IN
            NotAnObject(q.payload) \/ BadTurn(q.payload) =>
               /\ Kinds(q.events) = <<"error", "done">>
               /\ q.events[1].room = q.sid /\ q.events[2].room = q.sid
               /\ q.events[1].text \in
                     { "Server error: 'list' object has no attribute 'get'",
                       "Server error: 'str' object has no attribute 'get'" }
               /\ NotAnObject(q.payload) /\ Decode(Payloads[q.payload]).value.t = "list"
                     => q.events[1].text =
                          "Server error: 'list' object has no attribute 'get'"
               /\ BadTurn(q.payload)
                     => q.events[1].text =
                          "Server error: 'str' object has no attribute 'get'"
               /\ q.pc = "rejected"
               /\ ~q.invoked /\ q.ntok = 0 /\ q.exc = "")
    /\ [][Len(requests') > Len(requests) =>
            LET n == requests'[Len(requests')] IN
            NotAnObject(n.payload) \/ BadTurn(n.payload) =>
                n.pc = "rejected" /\ Len(n.events) = 2]_vars

\* Witness: a payload that decodes to a list and a payload with a turn
\* that is a string, both received and answered.
C17_Witness ==
    \E r, q \in Rids :
        /\ NotAnObject(requests[r].payload)
        /\ BadTurn(requests[q].payload)
        /\ requests[r].pc = "rejected" /\ requests[q].pc = "rejected"
        /\ Len(requests[r].events) = 2 /\ Len(requests[q].events) = 2

(* ------------------------------- C18 ----------------------------------- *)
\* the generated tokens of request r that reached the sender (the first
\* token of a worker is its 'Starting' notice)
Forwarded(r) ==
    Cardinality({i \in 1..Len(requests[r].events) :
        /\ requests[r].events[i].kind = "token"
        /\ requests[r].events[i].text # "Starting to process your request..."})

\* on_new_token ran for request r and the send of a token failed
SendFailed(r) == requests[r].ntok > Forwarded(r)

\* the step of on_new_token for request r in which the send fails
SendFailure(r) ==
    /\ requests'[r].ntok = requests[r].ntok + 1
    /\ requests'[r].events = requests[r].events

\* C18: the step in which a token cannot be sent changes nothing but the
\* count of callbacks: the external call goes on, no event is emitted and
\* no failure is recorded.  After it the next token can still be
\* forwarded and the call can still return.  A failed send alone never
\* gives an Error event, and the request that ends after one has exactly
\* one Done, as its last event.
C18_TokenSendFailureSwallowed ==
    /\ [][\A r \in Rids : SendFailure(r) =>
            /\ requests[r].pc = "kickoff"
            /\ requests' = [requests EXCEPT ![r].ntok = @ + 1]]_vars
    /\ [](\A r \in Rids :
            LET q == requests[r] IN
            SendFailed(r) =>
               /\ q.pc = "kickoff" =>
                    /\ ENABLED KickoffReturn(r)
                    /\ q.ntok < MaxTokens => ENABLED on_new_token(r, TRUE)
               /\ ~Failed(r) => ~HasKind(q.events, "error")
               /\ Failed(r) => q.exc = "agent call failed"
               /\ q.pc = "finished" =>
                    /\ KindCount(q.events, "done") = 1
                    /\ q.events[Len(q.events)].kind = "done")

\* Witness: the first generated token could not be sent, the second one was
\* forwarded, and the request ended with its Done and no Error.
C18_Witness ==
    \E r \in Rids :
        /\ requests[r].ntok = 2
        /\ requests[r].pc = "finished"
        /\ requests[r].events =
              << [room |-> requests[r].sid, kind |-> "token",
                  text |-> "Starting to process your request..."],
                 [room |-> requests[r].sid, kind |-> "token", text |-> "lo"],
                 [room |-> requests[r].sid, kind |-> "done", text |-> ""] >>

(* ------------------------------- C19 ----------------------------------- *)
\* the requests received from session s
RequestsOf(s) == {r \in Rids : requests[r].sid = s}

\* the Done events emitted to session s: by handle_connect, by
\* handle_message and by the workers
DonesIn(evs, s) ==
    Cardinality({i \in 1..Len(evs) : evs[i].kind = "done" /\ evs[i].room = s})
DonesOfRequests(s) ==
    SumOver([r \in Rids |-> DonesIn(requests[r].events, s)], Rids)
DonesTo(s) == DonesIn(acks[s], s) + DonesOfRequests(s)

\* the place of an event in the order of a request: the 'Starting' notice,
\* the generated tokens, the Error, the Done
Stage(e) ==
    CASE e.kind = "token" /\ e.text = "Starting to process your request..." -> 0
      [] e.kind = "token" -> 1
      [] e.kind = "error" -> 2
      [] OTHER            -> 3

\* the callback that produced a generated token
CallbackOf(e) == CHOOSE k \in 1..MaxTokens : TokenText(k) = e.text

\* C19: a session has been sent at most one Done (the connect
\* acknowledgement) plus one per message received from it, and exactly
\* that many once all its requests are over.  The events of a request
\* stand in the order produced: the 'Starting' notice, the generated
\* tokens in callback order, at most one Error, the Done; a step adds an
\* event of a request only at the end of what the request has been sent,
\* also while another request of the same session is being processed.
C19_DoneBoundAndRequestOrder ==
    /\ [](\A s \in Sids :
            /\ DonesTo(s) <= 1 + Cardinality(RequestsOf(s))
            /\ DonesIn(acks[s], s) = (IF transport[s] = "new" THEN 0 ELSE 1)
            /\ DonesOfRequests(s) =
                  Cardinality({r \in RequestsOf(s) : Terminal(r)}))
    /\ [](\A r \in Rids :
            LET evs == requests[r].events IN
            /\ \A i, j \in 1..Len(evs) :
                  i < j =>
                     /\ Stage(evs[i]) <= Stage(evs[j])
                     /\ Stage(evs[i]) = Stage(evs[j]) =>
                           /\ Stage(evs[i]) = 1
                           /\ CallbackOf(evs[i]) < CallbackOf(evs[j])
            /\ \A i \in 1..Len(evs) :
                  Stage(evs[i]) = 1 => CallbackOf(evs[i]) <= requests[r].ntok
            /\ requests[r].invoked => Stage(evs[1]) = 0)
    /\ [][\A r \in Rids :
            LET old == requests[r].events
                new == requests'[r].events
            IN  \/ new = old
                \/ /\ Len(new) = Len(old) + 1
                   /\ SubSeq(new, 1, Len(old)) = old
                   /\ \A q \in Rids \ {r} : requests'[q] = requests[q]]_vars

\* Witness: two requests of one session are in their external call at the
\* same time, each with generated tokens forwarded, while the session has
\* only the Done of its connect acknowledgement.
C19_Witness ==
    /\ Len(requests) = 2
    /\ requests[1].sid = requests[2].sid
    /\ requests[1].pc = "kickoff" /\ requests[2].pc = "kickoff"
    /\ Len(requests[1].events) = 3 /\ Len(requests[2].events) = 2
    /\ DonesTo(requests[1].sid) = 1

====
